---------------------------- MODULE Spec2Model ----------------------------
(***************************************************************************)
(* Model of the Operation Gateway (runWithAuthRetry) of the service layer:  *)
(* one call of the gateway, from the first invocation of the wrapped       *)
(* operation to the settlement of the promise it returns.                  *)
(*                                                                         *)
(* Text is modelled as a sequence of tokens.  A token is an indivisible    *)
(* piece of text; String.prototype.includes is decided token by token      *)
(* with the table Occurs, so a pattern never straddles two tokens.  The    *)
(* tokens "{" and "}" are the only ones that carry a brace.                *)
(***************************************************************************)
EXTENDS Integers, Sequences, FiniteSets, TLC

\* ------------------------------------------------------------------ bounds
\* longest text, in tokens, of the message nested in an error descriptor
MaxNestedLen == 1
\* longest free text, in tokens, in front of the embedded JSON fragment
MaxPrefixLen == 1
\* longest message, in tokens, without any brace
MaxPlainLen == 2

\* ------------------------------------------------------------ text universe
\* the ten patterns of the fallback check, in source order
Patterns ==
  { "403", "PERMISSION_DENIED", "The caller does not have permission",
    "API_KEY is not defined", "API key not valid", "INVALID_ARGUMENT",
    "quota", "404", "NOT_FOUND", "Requested entity was not found" }

\* message of the error thrown when the prompt or the retried attempt fails
KeyErrorMessage == << "Connection failed. Please select a valid API Key." >>

\* tokens of free text: every pattern, tokens that contain none of them
\* ("Quota" differs from "quota" by case only), a token that contains "403"
\* as a proper substring, and the text of the gateway's own fixed message
Words ==
  Patterns \cup { "connection reset", "Quota", "no access", "1403",
                  KeyErrorMessage[1] }

\* tokens used for the message nested in an error descriptor
NestedWords == { "no access", "quota", "403" }

\* tokens used for free text in front of the embedded JSON fragment
PrefixWords == { "quota", "403", "connection reset", KeyErrorMessage[1] }

\* tokens used for free text after the embedded JSON fragment
SuffixWords == { "quota", "connection reset" }

SeqsUpTo(S, n) == UNION { [1..k -> S] : k \in 0..n }

\* pattern p occurs in the text of the single token tok
Occurs(p, tok) ==
  \/ p = tok
  \/ p = "403" /\ tok = "1403"

\* String.prototype.includes on a token sequence
Includes(msg, p) == \E i \in DOMAIN msg : Occurs(p, msg[i])

\* ------------------------------------------------------------ JSON values
\* An object as JSON.parse returns it.  hasError: the object has a truthy
\* "error" member; code = 0 and status = "" stand for an absent member;
\* message.present is FALSE for an absent member and message.text = << >>
\* with message.present is the empty string.
NoMessage == [present |-> FALSE, text |-> << >>]

NoObject == [hasError |-> FALSE, code |-> 0, status |-> "", message |-> NoMessage]

Codes == {0, 400, 403, 404, 500}

Statuses == {"", "PERMISSION_DENIED", "NOT_FOUND", "INTERNAL"}

NestedMessages ==
  {NoMessage} \cup { [present |-> TRUE, text |-> t] : t \in SeqsUpTo(NestedWords, MaxNestedLen) }

ErrorObjects ==
  { [hasError |-> TRUE, code |-> c, status |-> s, message |-> m] :
      c \in Codes, s \in Statuses, m \in NestedMessages }

JsonObjects == {NoObject} \cup ErrorObjects

\* JSON.stringify of an object of JsonObjects, as tokens
stringify(o) ==
  IF ~o.hasError THEN << "{", "}" >>
  ELSE << "{", "error:", "{" >>
       \o (IF o.code = 0 THEN << >> ELSE << "code:", ToString(o.code) >>)
       \o (IF o.status = "" THEN << >> ELSE << "status:", "\"", o.status, "\"" >>)
       \o (IF ~o.message.present THEN << >>
           ELSE << "message:", "\"" >> \o o.message.text \o << "\"" >>)
       \o << "}", "}" >>

\* the texts JSON.parse turns into an object of JsonObjects
JsonTexts == { stringify(o) : o \in JsonObjects }

\* JSON.parse: the object whose text is toks; ok = FALSE when JSON.parse
\* throws, or returns a value without an "error" member to read (a number,
\* a string, null), which the code handles exactly as a parse error
JSONparse(toks) ==
  IF toks \notin JsonTexts THEN [ok |-> FALSE, value |-> NoObject]
  ELSE IF Len(toks) = 2 THEN [ok |-> TRUE, value |-> NoObject]
  ELSE
    LET hasCode   == toks[4] = "code:"
        code      == IF hasCode THEN CHOOSE c \in Codes : ToString(c) = toks[5] ELSE 0
        i         == IF hasCode THEN 6 ELSE 4
        hasStatus == toks[i] = "status:"
        status    == IF hasStatus THEN toks[i + 2] ELSE ""
        j         == IF hasStatus THEN i + 4 ELSE i
        hasMsg    == toks[j] = "message:"
        text      == IF hasMsg THEN SubSeq(toks, j + 2, Len(toks) - 3) ELSE << >>
    IN  [ok |-> TRUE,
         value |-> [hasError |-> TRUE, code |-> code, status |-> status,
                    message |-> [present |-> hasMsg, text |-> text]]]

\* ------------------------------------------------------------ thrown values
\* kind "Error": an Error instance with the given message; "object": a plain
\* object; "string": a thrown string; "number": a thrown number
Thrown(k, m, o, n) == [kind |-> k, message |-> m, obj |-> o, num |-> n]

NoError == Thrown("none", << >>, NoObject, 0)

\* what an Error message may embed between a prefix and a suffix: one
\* object, unbalanced or reversed braces, two objects in a row
Fragments ==
  { << "{" >>, << "}" >>, << "}", "404", "{" >> }
  \cup { stringify(o) : o \in JsonObjects }
  \cup { stringify(NoObject) \o stringify(o) : o \in {e \in ErrorObjects : e.code = 403 /\ e.status = ""} }

\* messages of Error instances: plain text, or a fragment inside free text
ErrorMessages ==
  SeqsUpTo(Words, MaxPlainLen)
  \cup { pre \o mid \o post :
           pre \in SeqsUpTo(PrefixWords, MaxPrefixLen), mid \in Fragments,
           post \in SeqsUpTo(SuffixWords, 1) }

\* failures of the first invocation of operation
Errors ==
  { Thrown("Error", m, NoObject, 0) : m \in ErrorMessages }
  \cup { Thrown("object", << >>, o, 0) : o \in JsonObjects }
  \cup { Thrown("string", m, NoObject, 0) : m \in SeqsUpTo(Words, 1) }
  \cup { Thrown("number", << >>, NoObject, n) : n \in {403, 500} }

\* failures of the retried invocation; the gateway never inspects them
RetryErrors ==
  { Thrown("Error", m, NoObject, 0) :
      m \in { << "connection reset" >>, << "quota" >>, KeyErrorMessage,
              stringify([hasError |-> TRUE, code |-> 403, status |-> "PERMISSION_DENIED",
                         message |-> [present |-> TRUE, text |-> << "no access" >>]]) } }
  \cup { Thrown("object", << >>, NoObject, 0), Thrown("number", << >>, NoObject, 500) }

\* values a successful operation resolves with
Values == { << "v1" >>, << "v2" >> }

\* --------------------------------------------------- steps of the catch block
\* step 1: message of the caught value
ExtractMessage(error) ==
  IF error.kind = "Error" THEN error.message
  ELSE IF error.kind = "object" THEN stringify(error.obj)
  ELSE IF error.kind = "number" THEN << ToString(error.num) >>
  ELSE error.message

\* String.prototype.indexOf / lastIndexOf for a one-token needle, 0 = absent
\* (positions are 1-based here, so 0 plays the role of -1)
indexOf(msg, tok) ==
  IF \E i \in DOMAIN msg : msg[i] = tok
    THEN CHOOSE i \in DOMAIN msg : msg[i] = tok /\ \A j \in 1..(i-1) : msg[j] # tok
    ELSE 0

lastIndexOf(msg, tok) ==
  IF \E i \in DOMAIN msg : msg[i] = tok
    THEN CHOOSE i \in DOMAIN msg : msg[i] = tok /\ \A j \in (i+1)..Len(msg) : msg[j] # tok
    ELSE 0

\* msg.substring(jsonStart, jsonEnd + 1) for 1-based inclusive positions;
\* substring swaps its arguments when the first is the larger one
substring(msg, jsonStart, jsonEnd) ==
  IF jsonStart <= jsonEnd THEN SubSeq(msg, jsonStart, jsonEnd)
  ELSE SubSeq(msg, jsonEnd + 1, jsonStart - 1)

\* step 2, lines 44-48: the parsed embedded JSON
ParseEmbedded(msg) ==
  LET jsonStart == indexOf(msg, "{")
      jsonEnd   == lastIndexOf(msg, "}")
  IN  IF jsonStart # 0 /\ jsonEnd # 0
        THEN JSONparse(substring(msg, jsonStart, jsonEnd))
        ELSE [ok |-> FALSE, value |-> NoObject]

\* StructuredMatch without the Permission row of the table
StructuredMatchNoPermission(e) ==
  \/ e.code = 404
  \/ e.status = "NOT_FOUND"
  \/ e.code = 400
  \/ (e.message.present /\ e.message.text # << >> /\ Includes(e.message.text, "quota"))

\* step 2, lines 50-57: the classification table on parsed.error
StructuredMatch(e) ==
  \/ e.code = 403
  \/ e.status = "PERMISSION_DENIED"
  \/ e.code = 404
  \/ e.status = "NOT_FOUND"
  \/ e.code = 400
  \/ (e.message.present /\ e.message.text # << >> /\ Includes(e.message.text, "quota"))

\* ReplaceMessage that keeps the raw message
ReplaceMessageKeepRaw(raw, parsed) == raw

\* step 2, line 60: a truthy nested message replaces the working message
ReplaceMessage(raw, parsed) ==
  IF parsed.ok /\ parsed.value.hasError
     /\ parsed.value.message.present /\ parsed.value.message.text # << >>
    THEN parsed.value.message.text
    ELSE raw

\* FallbackMatch that compares "quota" without regard to case
FallbackMatchIgnoreCase(msg) ==
  \/ \E p \in Patterns : Includes(msg, p)
  \/ Includes(msg, "Quota")

\* step 3, lines 69-80: the pattern list on the working message
FallbackMatch(msg) ==
  \/ Includes(msg, "403")
  \/ Includes(msg, "PERMISSION_DENIED")
  \/ Includes(msg, "The caller does not have permission")
  \/ Includes(msg, "API_KEY is not defined")
  \/ Includes(msg, "API key not valid")
  \/ Includes(msg, "INVALID_ARGUMENT")
  \/ Includes(msg, "quota")
  \/ Includes(msg, "404")
  \/ Includes(msg, "NOT_FOUND")
  \/ Includes(msg, "Requested entity was not found")

\* Classify whose isPermissionError starts as true
ClassifyDefaultRetryable(raw) ==
  LET parsed  == ParseEmbedded(raw)
      working == ReplaceMessage(raw, parsed)
  IN  [isPermissionError |-> TRUE, msg |-> working]

\* steps 2 and 3 together: the value of isPermissionError at line 85
Classify(raw) ==
  LET parsed     == ParseEmbedded(raw)
      structured == parsed.ok /\ parsed.value.hasError /\ StructuredMatch(parsed.value)
      working    == ReplaceMessage(raw, parsed)
  IN  [isPermissionError |-> structured \/ (~structured /\ FallbackMatch(working)),
       msg |-> working]

\* ShouldPrompt that ignores requireAuth
ShouldPromptAlways(isPerm, reqAuth, available) == isPerm /\ available

\* step 4, lines 86-87: the prompt is opened
ShouldPrompt(isPerm, reqAuth, available) == isPerm /\ reqAuth /\ available

\* ------------------------------------------------------------------- state
VARIABLES
  pc,                \* position of the call: start, op1, select, op2, done
  requireAuth,       \* second argument of runWithAuthRetry
  hasSelectKey,      \* window.aistudio.openSelectKey is defined
  error,             \* value caught at line 29
  msg,               \* local msg
  isPermissionError, \* local isPermissionError
  classified,        \* number of times the catch block classified a failure
  retryError,        \* value caught at line 92
  value,             \* value the latest fulfilled operation() resolved with
  trace,             \* calls made so far: "operation", "openSelectKey"
  outcome,           \* settlement of the promise returned by the gateway
  svc,               \* the exported service function being executed
  ui                 \* the component that calls the service

gatewayVars == << pc, requireAuth, hasSelectKey, error, msg, isPermissionError,
                  classified, retryError, value, trace, outcome >>

vars == << pc, requireAuth, hasSelectKey, error, msg, isPermissionError,
           classified, retryError, value, trace, outcome, svc, ui >>

Pending == [status |-> "pending", value |-> << >>, message |-> << >>]

Fulfilled(v) == [status |-> "fulfilled", value |-> v, message |-> << >>]

Rejected(m) == [status |-> "rejected", value |-> << >>, message |-> m]

\* a response without candidates, and the result of no extraction
NoResponse == [hasParts |-> FALSE, parts |-> << >>]

NoExtract == [ok |-> FALSE, value |-> << >>, error |-> NoError]

\* behaviour of the backend's video job: n >= 0 is a job whose handle is done
\* once n handles that are not done were returned, NeverDone a job whose
\* handle is never done, Unscheduled a job that answers as it likes
NeverDone == -1

Unscheduled == -2

\* a job handle that is not done
NoHandle == [done |-> FALSE, uri |-> FALSE]

\* no exported service function is executing: the gateway is called directly.
\* entry: the exported function the caller called; fn: the exported function
\* that is executing (entry, or the one entry delegates to); pro, ref, prompt: useProMode and whether a
\* reference image and a prompt were passed; stage: the await the function is
\* suspended at; calls: requests made so far; tier1: failure of the tier-1
\* attempt; response, extracted: the last response and what was extracted
\* from it; thrown: the error a synchronous throw of the operation carries;
\* apiKey: process.env.API_KEY is set; handle, polls: the video job;
\* job: how the backend's job behaves; result: settlement of the promise the
\* exported function returns
SvcIdle ==
  [entry |-> "none", fn |-> "none", pro |-> FALSE, ref |-> FALSE, prompt |-> FALSE,
   stage |-> "idle", calls |-> << >>, tier1 |-> NoError,
   response |-> NoResponse, extracted |-> NoExtract, thrown |-> NoError,
   apiKey |-> FALSE, handle |-> NoHandle, polls |-> 0, job |-> Unscheduled,
   result |-> Pending]

\* no component is mounted.  site: the mounted component; prompt: the text
\* input is not empty; file: an image or video is loaded; loading: the
\* loading flag; reading: the FileReader of VideoAnalyzer is at work;
\* inFlight: service calls awaited; result: a result of the service is on
\* screen; shown: the error text on screen; last: how the latest settled
\* call ended
UiIdle ==
  [site |-> "none", prompt |-> FALSE, file |-> FALSE, loading |-> FALSE,
   reading |-> FALSE, inFlight |-> 0, result |-> FALSE, shown |-> << >>,
   last |-> "none"]

Init ==
  /\ svc = SvcIdle
  /\ ui = UiIdle
  /\ pc = "start"
  /\ requireAuth \in BOOLEAN
  /\ hasSelectKey \in BOOLEAN
  /\ error = NoError
  /\ msg = << >>
  /\ isPermissionError = FALSE
  /\ classified = 0
  /\ retryError = NoError
  /\ value = << >>
  /\ trace = << >>
  /\ outcome = Pending

\* line 28: operation() is invoked; gateway part of the step
GwInvoke ==
  /\ pc = "start"
  /\ pc' = "op1"
  /\ trace' = Append(trace, "operation")
  /\ UNCHANGED << requireAuth, hasSelectKey, error, msg, isPermissionError,
                  classified, retryError, value, outcome >>

\* line 28: operation() is invoked
Invoke == GwInvoke /\ UNCHANGED << svc, ui >>

\* OperationResolves that invokes operation() once more before returning
OperationResolvesTwice ==
  /\ pc = "op1"
  /\ \E v \in Values : value' = v
  /\ pc' = "op2"
  /\ trace' = Append(trace, "operation")
  /\ UNCHANGED << svc, ui, requireAuth, hasSelectKey, error, msg, isPermissionError,
                  classified, retryError, outcome >>

\* line 28: the first invocation fulfils and its value is returned
GwResolves(v) ==
  /\ pc = "op1"
  /\ value' = v /\ outcome' = Fulfilled(v)
  /\ pc' = "done"
  /\ UNCHANGED << requireAuth, hasSelectKey, error, msg, isPermissionError,
                  classified, retryError, trace >>

\* line 28: the first invocation fulfils with one of Values
OperationResolves ==
  /\ pc = "op1"
  /\ \E v \in Values : GwResolves(v)
  /\ UNCHANGED << svc, ui >>

\* lines 29-99: the catch block for the caught value e, up to the await of
\* openSelectKey or to the final throw
CatchBlock(e) ==
  LET c == Classify(ExtractMessage(e))
  IN  /\ error' = e
      /\ msg' = c.msg
      /\ isPermissionError' = c.isPermissionError
      /\ classified' = classified + 1
      /\ IF ShouldPrompt(c.isPermissionError, requireAuth, hasSelectKey)
           THEN /\ pc' = "select"
                /\ trace' = Append(trace, "openSelectKey")
                /\ outcome' = outcome
           ELSE /\ pc' = "done"
                /\ trace' = trace
                /\ outcome' = Rejected(c.msg)

\* lines 28-99: the first invocation rejects with e and the catch block runs
GwRejects(e) ==
  /\ pc = "op1"
  /\ CatchBlock(e)
  /\ UNCHANGED << requireAuth, hasSelectKey, retryError, value >>

\* lines 28-99: the first invocation rejects with one of Errors
OperationRejects ==
  /\ pc = "op1"
  /\ \E e \in Errors : GwRejects(e)
  /\ UNCHANGED << svc, ui >>

\* lines 90-91: openSelectKey fulfils and operation() is invoked again;
\* gateway part of the step
GwSelectKeyResolves ==
  /\ pc = "select"
  /\ pc' = "op2"
  /\ trace' = Append(trace, "operation")
  /\ UNCHANGED << requireAuth, hasSelectKey, error, msg, isPermissionError,
                  classified, retryError, value, outcome >>

\* lines 90-91: openSelectKey fulfils and operation() is invoked again
SelectKeyResolves == GwSelectKeyResolves /\ UNCHANGED << svc, ui >>

\* SelectKeyRejects that falls through to the final throw of msg
SelectKeyRejectsFallThrough ==
  /\ pc = "select"
  /\ \E e \in RetryErrors : retryError' = e
  /\ pc' = "done"
  /\ outcome' = Rejected(msg)
  /\ UNCHANGED << svc, ui, requireAuth, hasSelectKey, error, msg, isPermissionError,
                  classified, value, trace >>

\* lines 90, 92-93: openSelectKey rejects with e
GwSelectKeyRejects(e) ==
  /\ pc = "select"
  /\ retryError' = e
  /\ pc' = "done"
  /\ outcome' = Rejected(KeyErrorMessage)
  /\ UNCHANGED << requireAuth, hasSelectKey, error, msg, isPermissionError,
                  classified, value, trace >>

\* lines 90, 92-93: openSelectKey rejects
SelectKeyRejects ==
  /\ pc = "select"
  /\ \E e \in RetryErrors : GwSelectKeyRejects(e)
  /\ UNCHANGED << svc, ui >>

\* line 91: the retried invocation fulfils with v
GwRetryResolves(v) ==
  /\ pc = "op2"
  /\ value' = v /\ outcome' = Fulfilled(v)
  /\ pc' = "done"
  /\ UNCHANGED << requireAuth, hasSelectKey, error, msg, isPermissionError,
                  classified, retryError, trace >>

\* line 91: the retried invocation fulfils with one of Values
RetryResolves ==
  /\ pc = "op2"
  /\ \E v \in Values : GwRetryResolves(v)
  /\ UNCHANGED << svc, ui >>

\* RetryRejects that rethrows the failure of the retried invocation
RetryRejectsRethrow ==
  /\ pc = "op2"
  /\ \E e \in RetryErrors : retryError' = e /\ outcome' = Rejected(ExtractMessage(e))
  /\ pc' = "done"
  /\ UNCHANGED << svc, ui, requireAuth, hasSelectKey, error, msg, isPermissionError,
                  classified, value, trace >>

\* RetryRejects that invokes operation() a third time
RetryRejectsAgain ==
  /\ pc = "op2"
  /\ \E e \in RetryErrors : retryError' = e
  /\ IF Len(trace) < 4
       THEN pc' = "op2" /\ trace' = Append(trace, "operation") /\ outcome' = outcome
       ELSE pc' = "done" /\ trace' = trace /\ outcome' = Rejected(KeyErrorMessage)
  /\ UNCHANGED << svc, ui, requireAuth, hasSelectKey, error, msg, isPermissionError,
                  classified, value >>

\* lines 91-93: the retried invocation rejects with e
GwRetryRejects(e) ==
  /\ pc = "op2"
  /\ retryError' = e
  /\ pc' = "done"
  /\ outcome' = Rejected(KeyErrorMessage)
  /\ UNCHANGED << requireAuth, hasSelectKey, error, msg, isPermissionError,
                  classified, value, trace >>

\* lines 91-93: the retried invocation rejects
RetryRejects ==
  /\ pc = "op2"
  /\ \E e \in RetryErrors : GwRetryRejects(e)
  /\ UNCHANGED << svc, ui >>

Next ==
  \/ Invoke
  \/ OperationResolves
  \/ OperationRejects
  \/ SelectKeyResolves
  \/ SelectKeyRejects
  \/ RetryResolves
  \/ RetryRejects

Spec == Init /\ [][Next]_vars

\* ------------------------------------------------------ derived quantities
Count(ev) == Cardinality({ i \in DOMAIN trace : trace[i] = ev })

TypeOK ==
  /\ pc \in {"start", "op1", "select", "op2", "done"}
  /\ requireAuth \in BOOLEAN
  /\ hasSelectKey \in BOOLEAN
  /\ isPermissionError \in BOOLEAN
  /\ classified \in 0..1
  /\ outcome.status \in {"pending", "fulfilled", "rejected"}
  /\ (pc = "done") = (outcome.status # "pending")


\* ------------------------------------------------------ payload extraction
\* longest inline payload, in tokens, and most content segments of a response
MaxPayloadLen == 1

MaxParts == 2

\* tokens of base64 text; none of them contains a comma
Base64Words == { "iVBOR", "AAAA" }

\* tokens of the text segments of a response
RefusalWords == { "I cannot", "quota" }

\* content segments: inline is part.inlineData being set, data its data
\* (<< >> is the empty string), text is part.text (<< >> when absent)
Parts ==
  { [inline |-> TRUE, data |-> d, text |-> << >>] : d \in SeqsUpTo(Base64Words, MaxPayloadLen) }
  \cup { [inline |-> FALSE, data |-> << >>, text |-> << w >>] : w \in RefusalWords }

\* responses: without candidates, or with up to MaxParts content segments
Responses ==
  { NoResponse } \cup { [hasParts |-> TRUE, parts |-> ps] : ps \in SeqsUpTo(Parts, MaxParts) }

\* failures of a backend request
BackendErrors ==
  { Thrown("Error", m, NoObject, 0) :
      m \in { << "connection reset" >>, << "API key not valid" >>, << "quota" >>,
              stringify([hasError |-> TRUE, code |-> 403, status |-> "PERMISSION_DENIED",
                         message |-> [present |-> TRUE, text |-> << "no access" >>]]) } }

\* DataUri without the comma that ends the prefix
DataUriNoComma(data) == << "data:image/png;base64" >> \o data

\* the template literal `data:image/png;base64,${data}`
DataUri(data) == << "data:image/png;base64", "," >> \o data

\* ScanParts that assigns the text of a segment instead of appending it
RECURSIVE ScanPartsOverwrite(_, _, _)
ScanPartsOverwrite(parts, i, textRefusal) ==
  IF i > Len(parts) THEN [found |-> FALSE, data |-> << >>, textRefusal |-> textRefusal]
  ELSE IF parts[i].inline /\ parts[i].data # << >>
    THEN [found |-> TRUE, data |-> parts[i].data, textRefusal |-> textRefusal]
  ELSE ScanPartsOverwrite(parts, i + 1,
                          IF parts[i].text # << >> THEN parts[i].text ELSE textRefusal)

\* the for loop over parts from position i on, textRefusal being the text
\* accumulated so far
RECURSIVE ScanParts(_, _, _)
ScanParts(parts, i, textRefusal) ==
  IF i > Len(parts) THEN [found |-> FALSE, data |-> << >>, textRefusal |-> textRefusal]
  ELSE IF parts[i].inline /\ parts[i].data # << >>
    THEN [found |-> TRUE, data |-> parts[i].data, textRefusal |-> textRefusal]
  ELSE ScanParts(parts, i + 1,
                 IF parts[i].text # << >> THEN textRefusal \o parts[i].text
                                          ELSE textRefusal)

\* the extraction loop with the two messages of its failures
Extract(response, refused, generic) ==
  LET r == IF response.hasParts THEN ScanParts(response.parts, 1, << >>)
           ELSE [found |-> FALSE, data |-> << >>, textRefusal |-> << >>]
  IN  IF r.found THEN [ok |-> TRUE, value |-> DataUri(r.data), error |-> NoError]
      ELSE IF r.textRefusal # << >>
        THEN [ok |-> FALSE, value |-> << >>,
              error |-> Thrown("Error", << refused >> \o r.textRefusal, NoObject, 0)]
      ELSE [ok |-> FALSE, value |-> << >>,
            error |-> Thrown("Error", << generic >>, NoObject, 0)]

\* generateImage, lines 110-125
extractImageFromResponse(response) ==
  Extract(response, "Model refused: ", "No image data returned.")

\* editImage, lines 177-190
extractEditedImage(response) ==
  Extract(response, "Model unable to edit: ", "No edited image returned.")

\* editImage, line 165: base64Image.split(',')[1] || base64Image
StripDataUriPrefix(base64Image) ==
  LET i == indexOf(base64Image, ",")
  IN  IF i = 0 THEN base64Image
      ELSE LET rest  == SubSeq(base64Image, i + 1, Len(base64Image))
               j     == indexOf(rest, ",")
               piece == IF j = 0 THEN rest ELSE SubSeq(rest, 1, j - 1)
           IN  IF piece = << >> THEN base64Image ELSE piece

\* ------------------------------------------------- exported service functions
Tier1Request == "generateContent:gemini-3-pro-image-preview"

FlashRequest == "generateContent:gemini-2.5-flash-image"

\* the extraction the executing function applies to a response
ExtractFor(fn, response) ==
  IF fn = "editImage" THEN extractEditedImage(response)
  ELSE extractImageFromResponse(response)

ServiceInit ==
  /\ svc \in { [SvcIdle EXCEPT !.apiKey = k] : k \in BOOLEAN }
  /\ ui = UiIdle
  /\ pc = "start"
  /\ requireAuth = TRUE
  /\ hasSelectKey \in BOOLEAN
  /\ error = NoError
  /\ msg = << >>
  /\ isPermissionError = FALSE
  /\ classified = 0
  /\ retryError = NoError
  /\ value = << >>
  /\ trace = << >>
  /\ outcome = Pending

\* the wrapped operation fulfils with v: line 28 or line 91 of the gateway
GwOperationResolves(v) == GwResolves(v) \/ GwRetryResolves(v)

\* the wrapped operation rejects with e: the catch block or lines 92-93
GwOperationRejects(e) == GwRejects(e) \/ GwRetryRejects(e)

\* the exported function returns the gateway's promise: its settlement is
\* the gateway's, and it is suspended at the prompt otherwise
AdoptGateway(s) ==
  [s EXCEPT !.stage = IF pc' = "done" THEN "settled" ELSE "select",
            !.result = outcome']

\* generateImage, lines 108-139: the tier-1 request is sent
StartGenerateImage(s) ==
  /\ svc' = [s EXCEPT !.fn = "generateImage", !.stage = "tier1",
                      !.calls = Append(@, Tier1Request)]
  /\ UNCHANGED gatewayVars

\* editImage, lines 163-175 and 193: the gateway is called and invokes
\* apiCall, which sends its request
StartEditImage(s) ==
  /\ GwInvoke
  /\ svc' = [s EXCEPT !.fn = "editImage", !.stage = "request",
                      !.calls = Append(@, FlashRequest)]

\* a caller calls generateImage
GenerateImageCall ==
  /\ svc.stage = "idle"
  /\ StartGenerateImage([svc EXCEPT !.entry = "generateImage"])
  /\ UNCHANGED ui

\* generateImage, lines 141-152: the tier-1 failure e is logged, the gateway
\* is called and invokes the tier-2 operation, which sends its request
Tier1Fallback(e, response, extracted) ==
  /\ GwInvoke
  /\ svc' = [svc EXCEPT !.tier1 = e, !.response = response, !.extracted = extracted,
                        !.stage = "request", !.calls = Append(@, FlashRequest)]

\* generateImage, lines 130-140: the tier-1 request is answered
Tier1Responds ==
  /\ svc.stage = "tier1"
  /\ \E response \in Responses :
       LET x == extractImageFromResponse(response)
       IN  IF x.ok
             THEN /\ svc' = [svc EXCEPT !.response = response, !.extracted = x,
                                        !.stage = "settled", !.result = Fulfilled(x.value)]
                  /\ UNCHANGED gatewayVars
             ELSE Tier1Fallback(x.error, response, x)
  /\ UNCHANGED ui

\* Tier1Rejects that reports the tier-1 failure without trying tier 2
Tier1RejectsShortCircuit ==
  /\ svc.stage = "tier1"
  /\ \E e \in BackendErrors :
       svc' = [svc EXCEPT !.tier1 = e, !.stage = "settled",
                          !.result = Rejected(ExtractMessage(e))]
  /\ UNCHANGED << gatewayVars, ui >>

\* generateImage, lines 130, 141: the tier-1 request fails
Tier1Rejects ==
  /\ svc.stage = "tier1"
  /\ \E e \in BackendErrors : Tier1Fallback(e, NoResponse, NoExtract)
  /\ UNCHANGED ui

\* a caller calls editImage
EditImageCall ==
  /\ svc.stage = "idle"
  /\ StartEditImage([svc EXCEPT !.entry = "editImage"])
  /\ UNCHANGED ui

\* lines 146-151 and 167-190: the request of the wrapped image operation is
\* answered; the operation returns the data URI or throws
ImageRequestResponds ==
  /\ svc.stage = "request"
  /\ \E response \in Responses :
       LET x == ExtractFor(svc.fn, response)
       IN  /\ IF x.ok THEN GwOperationResolves(x.value) ELSE GwOperationRejects(x.error)
           /\ svc' = AdoptGateway([svc EXCEPT !.response = response, !.extracted = x])
  /\ UNCHANGED ui

\* lines 146 and 167: the request of the wrapped image operation fails
ImageRequestRejects ==
  /\ svc.stage = "request"
  /\ \E e \in BackendErrors :
       /\ GwOperationRejects(e)
       /\ svc' = AdoptGateway([svc EXCEPT !.response = NoResponse, !.extracted = NoExtract])
  /\ UNCHANGED ui

\* ---- generateVideo
\* most status polls of one attempt that are answered "not done"
MaxPolls == 2

\* job handles: done, and whether the response carries a video URI
Handles == [done : BOOLEAN, uri : BOOLEAN]

\* failures of fetch and of res.blob()
FetchErrors == { Thrown("Error", << "Failed to fetch" >>, NoObject, 0) }

\* res.statusText of a response that is not ok
StatusTexts == { << >>, << "Forbidden" >>, << "quota" >> }

\* URL.createObjectURL(blob)
BlobUrl == << "blob:", "video" >>

VideoError(m) == Thrown("Error", m, NoObject, 0)

\* StartVideoOperation that keeps the handle and the poll count of the job
\* submitted before
StartVideoOperationResumes(s) ==
  IF ~s.prompt /\ ~s.ref
    THEN [s EXCEPT !.fn = "generateVideo", !.stage = "throw",
                   !.thrown = VideoError(<< "Prompt or Image required for video generation" >>)]
    ELSE [s EXCEPT !.fn = "generateVideo", !.stage = "submit",
                   !.calls = Append(@, "generateVideos")]

\* generateVideo, lines 239-268: the operation runs up to its first await,
\* or throws when there is neither prompt nor image
StartVideoOperation(s) ==
  IF ~s.prompt /\ ~s.ref
    THEN [s EXCEPT !.fn = "generateVideo", !.stage = "throw",
                   !.thrown = VideoError(<< "Prompt or Image required for video generation" >>)]
    ELSE [s EXCEPT !.fn = "generateVideo", !.stage = "submit",
                   !.calls = Append(@, "generateVideos"),
                   !.handle = NoHandle, !.polls = 0]

\* the handles the job of s can return after `before` handles that were not
\* done
HandleAllowed(s, h, before) ==
  IF s.job = Unscheduled THEN h.done \/ before <= MaxPolls
  ELSE IF s.job = NeverDone THEN ~h.done
  ELSE h.done = (before >= s.job)

\* the request log with r added; requests of the poll loop are recorded as
\* long as at most MaxPolls polls were answered
Log(s, r) == IF s.polls <= MaxPolls THEN Append(s.calls, r) ELSE s.calls

\* AfterHandle that polls again at once, without the delay
AfterHandleNoDelay(s, h) ==
  IF ~h.done
    THEN [s EXCEPT !.handle = h, !.stage = "poll", !.calls = Log(s, "getVideosOperation")]
  ELSE IF ~h.uri
    THEN [s EXCEPT !.handle = h, !.stage = "throw",
                   !.thrown = VideoError(<< "Video generation failed: No URI returned" >>)]
  ELSE IF ~s.apiKey
    THEN [s EXCEPT !.handle = h, !.stage = "throw",
                   !.thrown = VideoError(<< "API Key required for download" >>)]
  ELSE [s EXCEPT !.handle = h, !.stage = "fetch", !.calls = Append(@, "fetch")]

\* generateVideo, lines 271-283: the loop test and what follows the loop,
\* for the job handle h, as far as the next await or throw
AfterHandle(s, h) ==
  IF ~h.done
    THEN [s EXCEPT !.handle = h, !.stage = "delay", !.calls = Log(s, "setTimeout:5000")]
  ELSE IF ~h.uri
    THEN [s EXCEPT !.handle = h, !.stage = "throw",
                   !.thrown = VideoError(<< "Video generation failed: No URI returned" >>)]
  ELSE IF ~s.apiKey
    THEN [s EXCEPT !.handle = h, !.stage = "throw",
                   !.thrown = VideoError(<< "API Key required for download" >>)]
  ELSE [s EXCEPT !.handle = h, !.stage = "fetch", !.calls = Append(@, "fetch")]

\* RestartOperation that runs generateImage again from its tier-1 request
RestartOperationFromTier1(s) ==
  IF s.fn = "generateVideo" THEN StartVideoOperation(s)
  ELSE IF s.fn = "generateImage"
    THEN [s EXCEPT !.stage = "request", !.calls = @ \o << Tier1Request, FlashRequest >>]
  ELSE [s EXCEPT !.stage = "request", !.calls = Append(@, FlashRequest)]

\* the synchronous part of the wrapped operation of function s.fn, run when
\* the gateway invokes it again
RestartOperation(s) ==
  IF s.fn = "generateVideo" THEN StartVideoOperation(s)
  ELSE [s EXCEPT !.stage = "request", !.calls = Append(@, FlashRequest)]

\* generateVideo, lines 225-238: the body of generateVideo up to its first
\* await
VideoCall(pro, ref, prompt) ==
  LET s == [svc EXCEPT !.entry = "generateVideo", !.pro = pro,
                       !.ref = ref, !.prompt = prompt]
  IN  IF ~pro
        THEN IF ref THEN StartEditImage(s) ELSE StartGenerateImage(s)
        ELSE GwInvoke /\ svc' = StartVideoOperation(s)

\* a caller calls generateVideo with useProMode set
ProVideoCall ==
  /\ svc.stage = "idle"
  /\ \E ref, prompt \in BOOLEAN : VideoCall(TRUE, ref, prompt)
  /\ UNCHANGED ui

\* GenerateVideoCall that ignores useProMode
GenerateVideoCallAlwaysVeo ==
  /\ svc.stage = "idle"
  /\ \E pro, ref, prompt \in BOOLEAN :
       LET s == [svc EXCEPT !.entry = "generateVideo", !.pro = pro,
                            !.ref = ref, !.prompt = prompt]
       IN  GwInvoke /\ svc' = StartVideoOperation(s)
  /\ UNCHANGED ui

\* generateVideo, lines 218-238: without useProMode the call is delegated to
\* editImage or generateImage; with it the gateway invokes the Veo operation
GenerateVideoCall ==
  /\ svc.stage = "idle"
  /\ \E pro, ref, prompt \in BOOLEAN : VideoCall(pro, ref, prompt)
  /\ UNCHANGED ui

\* lines 264-266, 277, 281, 284: the operation throws
OperationThrows ==
  /\ svc.stage = "throw"
  /\ GwOperationRejects(svc.thrown)
  /\ svc' = AdoptGateway(svc)
  /\ UNCHANGED ui

\* line 268: the job is submitted and a handle returned
SubmitResolves ==
  /\ svc.stage = "submit"
  /\ \E h \in Handles :
       /\ HandleAllowed(svc, h, 0)
       /\ svc' = AfterHandle(svc, h)
  /\ UNCHANGED << gatewayVars, ui >>

\* lines 268, 273, 283, 286: a request of the Veo operation fails
VideoRequestRejects ==
  /\ svc.stage \in {"submit", "poll", "fetch", "blob"}
  /\ \E e \in IF svc.stage \in {"fetch", "blob"} THEN FetchErrors ELSE BackendErrors :
       GwOperationRejects(e)
  /\ svc' = AdoptGateway(svc)
  /\ UNCHANGED ui

\* lines 272-273: the delay elapses and the status is requested
DelayElapses ==
  /\ svc.stage = "delay"
  /\ svc' = [svc EXCEPT !.stage = "poll", !.calls = Log(svc, "getVideosOperation")]
  /\ UNCHANGED << gatewayVars, ui >>

\* PollResolves of a loop that gives up after MaxPolls answers
PollResolvesTimeout ==
  /\ svc.stage = "poll"
  /\ IF svc.polls >= MaxPolls
       THEN svc' = [svc EXCEPT !.stage = "throw",
                               !.thrown = VideoError(<< "Video generation timed out" >>)]
       ELSE \E h \in Handles :
              /\ HandleAllowed(svc, h, svc.polls + 1)
              /\ svc' = AfterHandle([svc EXCEPT !.polls = @ + 1], h)
  /\ UNCHANGED << gatewayVars, ui >>

\* line 273: the status request is answered; polls counts the answers up to
\* MaxPolls + 1
PollResolves ==
  /\ svc.stage = "poll"
  /\ \E h \in Handles :
       /\ HandleAllowed(svc, h, svc.polls + 1)
       /\ svc' = AfterHandle([svc EXCEPT !.polls = IF @ > MaxPolls THEN @ ELSE @ + 1], h)
  /\ UNCHANGED << gatewayVars, ui >>

\* lines 283-286: fetch is answered; a response that is not ok makes the
\* operation throw, otherwise the body is read
FetchResolves ==
  /\ svc.stage = "fetch"
  /\ \/ svc' = [svc EXCEPT !.stage = "blob"]
     \/ \E t \in StatusTexts :
          svc' = [svc EXCEPT !.stage = "throw",
                             !.thrown = VideoError(<< "Download failed: " >> \o t)]
  /\ UNCHANGED << gatewayVars, ui >>

\* lines 286-287: the body is read and the operation returns the object URL
BlobResolves ==
  /\ svc.stage = "blob"
  /\ GwOperationResolves(BlobUrl)
  /\ svc' = AdoptGateway(svc)
  /\ UNCHANGED ui

\* gateway lines 90-91 inside a service function: the prompt fulfils, the
\* credential may now be set, and the operation is invoked again
ServiceSelectKeyResolves ==
  /\ svc.stage = "select"
  /\ GwSelectKeyResolves
  /\ \E k \in {svc.apiKey, TRUE} : svc' = RestartOperation([svc EXCEPT !.apiKey = k])
  /\ UNCHANGED ui

\* gateway lines 90, 92-93 inside a service function: the prompt rejects
ServiceSelectKeyRejects ==
  /\ svc.stage = "select"
  /\ \E e \in RetryErrors :
       /\ GwSelectKeyRejects(e)
       /\ svc' = AdoptGateway(svc)
  /\ UNCHANGED ui

ServiceNext ==
  \/ GenerateImageCall
  \/ Tier1Responds
  \/ Tier1Rejects
  \/ EditImageCall
  \/ ImageRequestResponds
  \/ ImageRequestRejects
  \/ ServiceSelectKeyResolves
  \/ ServiceSelectKeyRejects
  \/ GenerateVideoCall
  \/ OperationThrows
  \/ SubmitResolves
  \/ VideoRequestRejects
  \/ DelayElapses
  \/ PollResolves
  \/ FetchResolves
  \/ BlobResolves

ServiceSpec == ServiceInit /\ [][ServiceNext]_vars

\* the service functions against a backend whose job follows a schedule
JobSchedules == { NeverDone } \cup 0..MaxPolls

LiveInit ==
  /\ svc \in { [SvcIdle EXCEPT !.apiKey = k, !.job = j] : k \in BOOLEAN, j \in JobSchedules }
  /\ ui = UiIdle
  /\ pc = "start"
  /\ requireAuth = TRUE
  /\ hasSelectKey \in BOOLEAN
  /\ error = NoError
  /\ msg = << >>
  /\ isPermissionError = FALSE
  /\ classified = 0
  /\ retryError = NoError
  /\ value = << >>
  /\ trace = << >>
  /\ outcome = Pending

\* the steps of a pro-mode generateVideo call
LiveNext ==
  \/ ProVideoCall
  \/ OperationThrows
  \/ SubmitResolves
  \/ VideoRequestRejects
  \/ DelayElapses
  \/ PollResolves
  \/ FetchResolves
  \/ BlobResolves
  \/ ServiceSelectKeyResolves
  \/ ServiceSelectKeyRejects

\* where the call is suspended; every step of LiveNext changes it
position == << pc, svc.stage >>

\* every awaited promise settles and every timer fires: a step is taken
\* as long as one is possible
LiveSpec == LiveInit /\ [][LiveNext]_vars /\ WF_position(LiveNext)

\* number of requests r made so far
Calls(r) == Cardinality({ i \in DOMAIN svc.calls : svc.calls[i] = r })

\* ------------------------------------------------------- the call sites
\* most service calls one component awaits at the same time
MaxInFlight == 2

Sites == { "ImageGen", "ImageEdit", "ChatInterface", "VideoGen", "VideoAnalyzer" }

\* messages of the rejections a service call can end with; << >> is an
\* error whose message is empty
ServiceFailures ==
  { KeyErrorMessage, << "quota" >>, << "No image data returned." >>, << >> }

ChatErrorText == << "Sorry, I encountered an error processing your request." >>

AnalysisFailedText == << "Analysis failed." >>

\* the disabled attribute of the button that starts the call
ImageGenDisabled(u) == u.loading \/ ~u.prompt

ImageEditDisabled(u) == u.loading \/ ~u.prompt \/ ~u.file

ChatDisabled(u) == ~u.prompt \/ u.loading

VideoGenDisabled(u) == u.loading \/ (~u.prompt /\ ~u.file)

VideoAnalyzerDisabled(u) == u.loading \/ ~u.file

ButtonDisabled(u) ==
  CASE u.site = "ImageGen" -> ImageGenDisabled(u)
    [] u.site = "ImageEdit" -> ImageEditDisabled(u)
    [] u.site = "ChatInterface" -> ChatDisabled(u)
    [] u.site = "VideoGen" -> VideoGenDisabled(u)
    [] u.site = "VideoAnalyzer" -> VideoAnalyzerDisabled(u)

\* the handlers up to their first await
ImageGen_handleGenerate(u) ==
  IF ~u.prompt THEN u
  ELSE [u EXCEPT !.loading = TRUE, !.result = FALSE, !.inFlight = @ + 1]

handleEdit(u) ==
  IF ~u.prompt \/ ~u.file THEN u
  ELSE [u EXCEPT !.loading = TRUE, !.inFlight = @ + 1]

handleSend(u) ==
  IF ~u.prompt THEN u
  ELSE [u EXCEPT !.prompt = FALSE, !.loading = TRUE, !.inFlight = @ + 1]

VideoGen_handleGenerate(u) ==
  IF ~u.prompt /\ ~u.file THEN u
  ELSE [u EXCEPT !.loading = TRUE, !.result = FALSE, !.inFlight = @ + 1]

handleAnalyze(u) ==
  IF ~u.file \/ ~u.prompt THEN u
  ELSE [u EXCEPT !.loading = TRUE, !.shown = << >>, !.result = FALSE, !.reading = TRUE]

Handler(u) ==
  CASE u.site = "ImageGen" -> ImageGen_handleGenerate(u)
    [] u.site = "ImageEdit" -> handleEdit(u)
    [] u.site = "ChatInterface" -> handleSend(u)
    [] u.site = "VideoGen" -> VideoGen_handleGenerate(u)
    [] u.site = "VideoAnalyzer" -> handleAnalyze(u)

\* the catch clause of the handler, for a rejection with message m
Catch(u, m) ==
  CASE u.site = "ChatInterface" -> [u EXCEPT !.shown = ChatErrorText]
    [] u.site = "VideoAnalyzer" ->
         [u EXCEPT !.shown = IF m # << >> THEN m ELSE AnalysisFailedText]
    [] OTHER -> u

\* the finally clause of the handler
Finally(u) == [u EXCEPT !.loading = FALSE, !.inFlight = @ - 1]

UiInit ==
  /\ ui \in { [UiIdle EXCEPT !.site = c, !.prompt = (c = "VideoAnalyzer")] : c \in Sites }
  /\ svc = SvcIdle
  /\ pc = "start"
  /\ requireAuth = TRUE
  /\ hasSelectKey = FALSE
  /\ error = NoError
  /\ msg = << >>
  /\ isPermissionError = FALSE
  /\ classified = 0
  /\ retryError = NoError
  /\ value = << >>
  /\ trace = << >>
  /\ outcome = Pending

\* onChange of the text input; the textarea of ImageEdit is disabled
\* without an image and while loading
SetPrompt ==
  /\ ui.site = "ImageEdit" => ui.file /\ ~ui.loading
  /\ \E b \in BOOLEAN : ui' = [ui EXCEPT !.prompt = b]
  /\ UNCHANGED << gatewayVars, svc >>

\* handleFileChange of ImageEdit, VideoGen and VideoAnalyzer, and the
\* buttons that remove the file
SetFile ==
  /\ \/ ui.site = "ImageEdit"
          /\ ui' = [ui EXCEPT !.file = TRUE, !.prompt = FALSE, !.result = FALSE]
     \/ ui.site = "VideoGen" /\ \E b \in BOOLEAN : ui' = [ui EXCEPT !.file = b]
     \/ ui.site = "VideoAnalyzer"
          /\ ui' = [ui EXCEPT !.file = TRUE, !.shown = << >>, !.result = FALSE]
     \/ ui.site = "VideoAnalyzer" /\ ui' = [ui EXCEPT !.file = FALSE]
  /\ UNCHANGED << gatewayVars, svc >>

\* onClick of the button that starts the call
Click ==
  /\ ~ButtonDisabled(ui)
  /\ ui.inFlight < MaxInFlight
  /\ ui' = Handler(ui)
  /\ UNCHANGED << gatewayVars, svc >>

\* handleKeyDown of ChatInterface: Enter without Shift
PressEnter ==
  /\ ui.site = "ChatInterface"
  /\ ui.inFlight < MaxInFlight
  /\ ui' = handleSend(ui)
  /\ UNCHANGED << gatewayVars, svc >>

\* reader.onloadend of VideoAnalyzer: analyzeVideoContent is called
ReaderLoadEnd ==
  /\ ui.reading
  /\ ui' = [ui EXCEPT !.reading = FALSE, !.inFlight = @ + 1]
  /\ UNCHANGED << gatewayVars, svc >>

\* the awaited service call fulfils
CallResolves ==
  /\ ui.inFlight > 0
  /\ ui' = [Finally(ui) EXCEPT !.result = TRUE, !.last = "resolved"]
  /\ UNCHANGED << gatewayVars, svc >>

\* CallRejects of a handler without the finally clause
CallRejectsNoFinally ==
  /\ ui.inFlight > 0
  /\ \E m \in ServiceFailures :
       ui' = [Catch(ui, m) EXCEPT !.inFlight = @ - 1, !.last = "rejected"]
  /\ UNCHANGED << gatewayVars, svc >>

\* the awaited service call rejects
CallRejects ==
  /\ ui.inFlight > 0
  /\ \E m \in ServiceFailures :
       ui' = [Finally(Catch(ui, m)) EXCEPT !.last = "rejected"]
  /\ UNCHANGED << gatewayVars, svc >>

UiNext ==
  \/ SetPrompt
  \/ SetFile
  \/ Click
  \/ PressEnter
  \/ ReaderLoadEnd
  \/ CallResolves
  \/ CallRejects

UiSpec == UiInit /\ [][UiNext]_vars

\* ------------------------------------------------------------------ App
Users == { "ada", "bob" }

NoUser == "none"

GatewayViews == { "IMAGE_GENERATION", "IMAGE_EDITING", "CHAT", "GALLERY" }

AppViews == { "HOME", "AUTH" } \cup GatewayViews

\* App before its effect ran.  session: the user stored under
\* 'lumina_session'; isLogin, authLoading: the mode and the loading flag of
\* the mounted Auth form; pending: authentication calls awaited; logins:
\* those of them that are loginUser calls
AppIdle ==
  [site |-> "App", isLoading |-> TRUE, user |-> NoUser, currentView |-> "HOME",
   isSidebarOpen |-> TRUE, session |-> NoUser, isLogin |-> TRUE,
   authLoading |-> FALSE, pending |-> 0, logins |-> 0]

\* what App renders
Rendered(a) ==
  IF a.isLoading THEN "Spinner"
  ELSE IF a.user = NoUser
    THEN IF a.currentView = "AUTH" THEN "Auth" ELSE "Home"
  ELSE CASE a.currentView = "IMAGE_GENERATION" -> "ImageGen"
         [] a.currentView = "IMAGE_EDITING" -> "ImageEdit"
         [] a.currentView = "CHAT" -> "ChatInterface"
         [] a.currentView = "GALLERY" -> "Gallery"
         [] OTHER -> "ImageGen"

handleLoginSuccess(a, userData) ==
  [a EXCEPT !.user = userData, !.currentView = "IMAGE_GENERATION"]

AppInit ==
  /\ ui \in { [AppIdle EXCEPT !.session = u] : u \in Users \cup {NoUser} }
  /\ svc = SvcIdle
  /\ pc = "start"
  /\ requireAuth = TRUE
  /\ hasSelectKey = FALSE
  /\ error = NoError
  /\ msg = << >>
  /\ isPermissionError = FALSE
  /\ classified = 0
  /\ retryError = NoError
  /\ value = << >>
  /\ trace = << >>
  /\ outcome = Pending

\* the effect that runs once after the first render
CheckSession ==
  /\ ui.isLoading
  /\ ui' = [(IF ui.session # NoUser THEN handleLoginSuccess(ui, ui.session) ELSE ui)
              EXCEPT !.isLoading = FALSE]
  /\ UNCHANGED << gatewayVars, svc >>

\* Home: onNavigateToAuth; Auth is mounted with its initial state
NavigateToAuth ==
  /\ Rendered(ui) = "Home"
  /\ ui' = [ui EXCEPT !.currentView = "AUTH", !.isLogin = TRUE, !.authLoading = FALSE]
  /\ UNCHANGED << gatewayVars, svc >>

\* Auth: onGoHome
GoHome ==
  /\ Rendered(ui) = "Auth"
  /\ ui' = [ui EXCEPT !.currentView = "HOME"]
  /\ UNCHANGED << gatewayVars, svc >>

\* Auth: handleSubmit up to the await of loginUser or registerUser
Submit ==
  /\ Rendered(ui) = "Auth"
  /\ ~ui.authLoading
  /\ ui.pending < MaxInFlight
  /\ ui' = [ui EXCEPT !.authLoading = TRUE, !.pending = @ + 1,
                       !.logins = IF ui.isLogin THEN @ + 1 ELSE @]
  /\ UNCHANGED << gatewayVars, svc >>

\* Auth: the button that switches between login and registration
ToggleMode ==
  /\ Rendered(ui) = "Auth"
  /\ ui' = [ui EXCEPT !.isLogin = ~@]
  /\ UNCHANGED << gatewayVars, svc >>

\* loginUser fulfils: the session is stored and onSuccess is called
LoginResolves ==
  /\ ui.logins > 0
  /\ \E u \in Users :
       ui' = [handleLoginSuccess(ui, u) EXCEPT !.session = u, !.authLoading = FALSE,
                                              !.pending = @ - 1, !.logins = @ - 1]
  /\ UNCHANGED << gatewayVars, svc >>

\* registerUser fulfils: onSuccess is called, no session is stored
RegisterResolves ==
  /\ ui.pending > ui.logins
  /\ \E u \in Users :
       ui' = [handleLoginSuccess(ui, u) EXCEPT !.authLoading = FALSE, !.pending = @ - 1]
  /\ UNCHANGED << gatewayVars, svc >>

\* loginUser or registerUser rejects
AuthRejects ==
  /\ ui.pending > 0
  /\ \E login \in BOOLEAN :
       /\ IF login THEN ui.logins > 0 ELSE ui.pending > ui.logins
       /\ ui' = [ui EXCEPT !.authLoading = FALSE, !.pending = @ - 1,
                            !.logins = IF login THEN @ - 1 ELSE @]
  /\ UNCHANGED << gatewayVars, svc >>

\* NavButton: onClick
Navigate ==
  /\ ~ui.isLoading /\ ui.user # NoUser
  /\ \E view \in GatewayViews : ui' = [ui EXCEPT !.currentView = view]
  /\ UNCHANGED << gatewayVars, svc >>

\* the sidebar button
ToggleSidebar ==
  /\ ~ui.isLoading /\ ui.user # NoUser
  /\ ui' = [ui EXCEPT !.isSidebarOpen = ~@]
  /\ UNCHANGED << gatewayVars, svc >>

\* handleLogout that leaves the view as it is
LogoutKeepsView ==
  /\ ~ui.isLoading /\ ui.user # NoUser
  /\ ui' = [ui EXCEPT !.session = NoUser, !.user = NoUser]
  /\ UNCHANGED << gatewayVars, svc >>

\* handleLogout with logoutUser
Logout ==
  /\ ~ui.isLoading /\ ui.user # NoUser
  /\ ui' = [ui EXCEPT !.session = NoUser, !.user = NoUser, !.currentView = "HOME"]
  /\ UNCHANGED << gatewayVars, svc >>

AppNext ==
  \/ CheckSession
  \/ NavigateToAuth
  \/ GoHome
  \/ Submit
  \/ ToggleMode
  \/ LoginResolves
  \/ RegisterResolves
  \/ AuthRejects
  \/ Navigate
  \/ ToggleSidebar
  \/ Logout

AppSpec == AppInit /\ [][AppNext]_vars

\* ------------------------------------------------------------- ImageEdit
\* longest history and most edits one image went through
MaxHistory == 3

MaxEdits == 2

\* an image is the uploaded file followed by one "edit" for each editImage
\* call it went through; << >> is null
Uploads == { "A", "B" }

NoImage == << >>

\* ImageEdit as mounted.  editing: the image the awaited editImage call was
\* given; saving: saveToGallery calls awaited; saveCalls: saveToGallery
\* calls made for the result on screen; last: the handler that ran last
EditorIdle ==
  [site |-> "ImageEdit", prompt |-> FALSE, history |-> << >>, historyIndex |-> -1,
   resultImage |-> NoImage, loading |-> FALSE, saved |-> FALSE,
   editing |-> NoImage, saving |-> 0, saveCalls |-> 0, last |-> "none"]

\* history[historyIndex], with the array's 0-based index
currentImage(e) ==
  IF e.historyIndex >= 0 /\ e.historyIndex < Len(e.history)
    THEN e.history[e.historyIndex + 1]
    ELSE NoImage

canUndo(e) == e.historyIndex > 0 \/ e.resultImage # NoImage

canRedo(e) == e.historyIndex < Len(e.history) - 1

handleApply(e) ==
  IF e.resultImage # NoImage
    THEN LET newHistory == Append(SubSeq(e.history, 1, e.historyIndex + 1), e.resultImage)
         IN  [e EXCEPT !.history = newHistory, !.historyIndex = Len(newHistory) - 1,
                       !.resultImage = NoImage, !.prompt = FALSE, !.saved = FALSE]
    ELSE e

handleDiscard(e) == [e EXCEPT !.resultImage = NoImage, !.saved = FALSE]

\* handleUndo that moves back also while a preview is pending
handleUndoAlwaysMoves(e) ==
  IF e.historyIndex > 0
    THEN [e EXCEPT !.historyIndex = @ - 1, !.resultImage = NoImage]
  ELSE IF e.resultImage # NoImage THEN handleDiscard(e)
  ELSE e

handleUndo(e) ==
  IF e.resultImage # NoImage THEN handleDiscard(e)
  ELSE IF e.historyIndex > 0
    THEN [e EXCEPT !.historyIndex = @ - 1, !.resultImage = NoImage]
  ELSE e

\* handleRedo without its test
handleRedoUnchecked(e) == [e EXCEPT !.historyIndex = @ + 1, !.resultImage = NoImage]

handleRedo(e) ==
  IF e.historyIndex < Len(e.history) - 1
    THEN [e EXCEPT !.historyIndex = @ + 1, !.resultImage = NoImage]
    ELSE e

handleReset(e) ==
  [e EXCEPT !.history = << >>, !.historyIndex = -1, !.resultImage = NoImage,
            !.prompt = FALSE, !.saved = FALSE]

EditorInit ==
  /\ ui = EditorIdle
  /\ svc = SvcIdle
  /\ pc = "start"
  /\ requireAuth = TRUE
  /\ hasSelectKey = FALSE
  /\ error = NoError
  /\ msg = << >>
  /\ isPermissionError = FALSE
  /\ classified = 0
  /\ retryError = NoError
  /\ value = << >>
  /\ trace = << >>
  /\ outcome = Pending

\* handleFileChange: reader.onloadend of an uploaded file
Upload ==
  /\ currentImage(ui) = NoImage
  /\ \E b \in Uploads :
       ui' = [ui EXCEPT !.history = << << b >> >>, !.historyIndex = 0,
                        !.resultImage = NoImage, !.prompt = FALSE, !.saved = FALSE,
                        !.last = "upload"]
  /\ UNCHANGED << gatewayVars, svc >>

\* onChange of the prompt textarea, disabled without an image and while
\* loading
EditorSetPrompt ==
  /\ currentImage(ui) # NoImage /\ ~ui.loading
  /\ \E b \in BOOLEAN : ui' = [ui EXCEPT !.prompt = b]
  /\ UNCHANGED << gatewayVars, svc >>

\* the edit button and handleEdit up to the await of editImage
Edit ==
  /\ ~(ui.loading \/ ~ui.prompt \/ currentImage(ui) = NoImage)
  /\ Len(currentImage(ui)) <= MaxEdits
  /\ ui' = [ui EXCEPT !.loading = TRUE, !.saved = FALSE, !.editing = currentImage(ui),
                      !.last = "edit"]
  /\ UNCHANGED << gatewayVars, svc >>

\* editImage fulfils with the edited image
EditResolves ==
  /\ ui.editing # NoImage
  /\ ui' = [ui EXCEPT !.resultImage = Append(ui.editing, "edit"), !.loading = FALSE,
                      !.editing = NoImage, !.saveCalls = 0, !.last = "edited"]
  /\ UNCHANGED << gatewayVars, svc >>

\* editImage rejects
EditRejects ==
  /\ ui.editing # NoImage
  /\ ui' = [ui EXCEPT !.loading = FALSE, !.editing = NoImage, !.last = "failed"]
  /\ UNCHANGED << gatewayVars, svc >>

\* Keep This Edit
Apply ==
  /\ ui.resultImage # NoImage
  /\ ui.historyIndex + 2 <= MaxHistory
  /\ ui' = [handleApply(ui) EXCEPT !.last = "apply"]
  /\ UNCHANGED << gatewayVars, svc >>

\* the discard button and the Escape key
Discard ==
  /\ ui.resultImage # NoImage
  /\ ui' = [handleDiscard(ui) EXCEPT !.last = "discard"]
  /\ UNCHANGED << gatewayVars, svc >>

\* the undo button (enabled when canUndo) and Ctrl+Z
Undo ==
  /\ ui' = [handleUndo(ui) EXCEPT !.last = "undo"]
  /\ UNCHANGED << gatewayVars, svc >>

\* the redo button (enabled when canRedo), Ctrl+Shift+Z and Ctrl+Y
Redo ==
  /\ ui' = [handleRedo(ui) EXCEPT !.last = "redo"]
  /\ UNCHANGED << gatewayVars, svc >>

\* the reset button
Reset ==
  /\ ui' = [handleReset(ui) EXCEPT !.last = "reset"]
  /\ UNCHANGED << gatewayVars, svc >>

\* the Save to Gallery button and handleSaveToGallery up to the await of
\* saveToGallery
SaveToGallery ==
  /\ ui.resultImage # NoImage /\ ~ui.saved
  /\ ui.saving < MaxInFlight /\ ui.saveCalls < MaxInFlight
  /\ ui' = [ui EXCEPT !.saving = @ + 1, !.saveCalls = @ + 1, !.last = "save"]
  /\ UNCHANGED << gatewayVars, svc >>

\* saveToGallery fulfils
SaveResolves ==
  /\ ui.saving > 0
  /\ ui' = [ui EXCEPT !.saving = @ - 1, !.saved = TRUE]
  /\ UNCHANGED << gatewayVars, svc >>

\* saveToGallery rejects
SaveRejects ==
  /\ ui.saving > 0
  /\ ui' = [ui EXCEPT !.saving = @ - 1]
  /\ UNCHANGED << gatewayVars, svc >>

EditorNext ==
  \/ Upload
  \/ EditorSetPrompt
  \/ Edit
  \/ EditResolves
  \/ EditRejects
  \/ Apply
  \/ Discard
  \/ Undo
  \/ Redo
  \/ Reset
  \/ SaveToGallery
  \/ SaveResolves
  \/ SaveRejects

EditorSpec == EditorInit /\ [][EditorNext]_vars

\* ------------------------------------------ ImageGen: the prompt history
\* most generateImage calls of one session that settle
MaxGenerations == 3

\* texts of the prompt field; "" is the empty field
GenPrompts == { "cat", "dog" }

AspectRatios == { "1:1", "16:9" }

ImageSizes == { "1K" }

\* slice(0, 10)
HistoryLimit == 10

HistoryItem(prompt, aspectRatio, size, timestamp) ==
  [prompt |-> prompt, aspectRatio |-> aspectRatio, size |-> size,
   timestamp |-> timestamp]

\* the value of localStorage key 'lumina_image_history'
NoStored == [present |-> FALSE, items |-> << >>]

Stored(items) == [present |-> TRUE, items |-> items]

\* no generateImage call is awaited; otherwise the closure of handleGenerate
\* holds the prompt, the settings and the history of the render it was
\* created in
NoGeneration ==
  [active |-> FALSE, prompt |-> "", aspectRatio |-> "1:1", size |-> "1K",
   history |-> << >>]

\* clock: Date.now(), counted in settled generations; clearedAt: Date.now()
\* of the last confirmed clearHistory, -1 before the first
ImageGenIdle ==
  [site |-> "ImageGen", mounted |-> FALSE, prompt |-> "", aspectRatio |-> "1:1",
   size |-> "1K", loading |-> FALSE, resultImage |-> FALSE, saved |-> FALSE,
   history |-> << >>, stored |-> NoStored, gen |-> NoGeneration,
   clock |-> 0, clearedAt |-> -1, last |-> "none"]

\* handleGenerate, lines 46-53: the new item in front of the entries of
\* history with other settings, cut to ten entries
NewHistory(newItem, history) ==
  LET others == SelectSeq(history, LAMBDA h : \/ h.prompt # newItem.prompt
                                               \/ h.aspectRatio # newItem.aspectRatio
                                               \/ h.size # newItem.size)
      all    == << newItem >> \o others
  IN  SubSeq(all, 1, IF Len(all) < HistoryLimit THEN Len(all) ELSE HistoryLimit)

\* the component is constructed; localStorage holds what an earlier session
\* left
HistoryInit ==
  /\ ui \in { [ImageGenIdle EXCEPT !.stored = st] :
                st \in { NoStored, Stored(<< >>),
                         Stored(<< HistoryItem("cat", "1:1", "1K", 0) >>) } }
  /\ svc = SvcIdle
  /\ pc = "start"
  /\ requireAuth = TRUE
  /\ hasSelectKey = FALSE
  /\ error = NoError
  /\ msg = << >>
  /\ isPermissionError = FALSE
  /\ classified = 0
  /\ retryError = NoError
  /\ value = << >>
  /\ trace = << >>
  /\ outcome = Pending

\* the mount effect, lines 24-33
LoadHistory ==
  /\ ~ui.mounted
  /\ ui' = [ui EXCEPT !.mounted = TRUE,
                      !.history = IF ui.stored.present THEN ui.stored.items ELSE @]
  /\ UNCHANGED << gatewayVars, svc >>

\* onChange of the prompt field
GenSetPrompt ==
  /\ ui.mounted
  /\ \E p \in GenPrompts \cup { "" } : ui' = [ui EXCEPT !.prompt = p]
  /\ UNCHANGED << gatewayVars, svc >>

\* onChange of the aspect ratio select
GenSetAspectRatio ==
  /\ ui.mounted
  /\ \E a \in AspectRatios : ui' = [ui EXCEPT !.aspectRatio = a]
  /\ UNCHANGED << gatewayVars, svc >>

\* handleGenerate up to its await, lines 34-40; the button is disabled
\* while loading and without a prompt
Generate ==
  /\ ui.mounted /\ ~ui.loading /\ ui.prompt # ""
  /\ ui.clock < MaxGenerations
  /\ ui' = [ui EXCEPT !.loading = TRUE, !.resultImage = FALSE, !.saved = FALSE,
                      !.gen = [active |-> TRUE, prompt |-> ui.prompt,
                               aspectRatio |-> ui.aspectRatio, size |-> ui.size,
                               history |-> ui.history],
                      !.last = "generate"]
  /\ UNCHANGED << gatewayVars, svc >>

\* handleGenerate, lines 40-57 and 62-64: generateImage fulfils
GenerateResolves ==
  /\ ui.gen.active
  /\ LET now        == ui.clock + 1
         newItem    == HistoryItem(ui.gen.prompt, ui.gen.aspectRatio, ui.gen.size, now)
         newHistory == NewHistory(newItem, ui.gen.history)
     IN  ui' = [ui EXCEPT !.resultImage = TRUE, !.history = newHistory,
                          !.stored = Stored(newHistory), !.loading = FALSE,
                          !.gen = NoGeneration, !.clock = now, !.last = "generated"]
  /\ UNCHANGED << gatewayVars, svc >>

\* handleGenerate, lines 59-64: generateImage rejects
GenerateRejects ==
  /\ ui.gen.active
  /\ ui' = [ui EXCEPT !.loading = FALSE, !.gen = NoGeneration,
                      !.clock = @ + 1, !.last = "failed"]
  /\ UNCHANGED << gatewayVars, svc >>

\* loadHistoryItem, lines 83-89: a click on an entry of the list
LoadHistoryItem ==
  /\ ui.mounted
  /\ \E i \in DOMAIN ui.history :
       ui' = [ui EXCEPT !.prompt = ui.history[i].prompt,
                        !.aspectRatio = ui.history[i].aspectRatio,
                        !.size = ui.history[i].size]
  /\ UNCHANGED << gatewayVars, svc >>

\* clearHistory, lines 91-96, when the user confirms; the button is rendered
\* with a history that is not empty
ClearHistory ==
  /\ ui.mounted /\ ui.history # << >>
  /\ ui' = [ui EXCEPT !.history = << >>, !.stored = NoStored,
                      !.clearedAt = ui.clock, !.last = "clear"]
  /\ UNCHANGED << gatewayVars, svc >>

HistoryNext ==
  \/ LoadHistory
  \/ GenSetPrompt
  \/ GenSetAspectRatio
  \/ Generate
  \/ GenerateResolves
  \/ GenerateRejects
  \/ LoadHistoryItem
  \/ ClearHistory

HistorySpec == HistoryInit /\ [][HistoryNext]_vars

\* ----------------------------------------------- vocabulary of the claims
Raw == ExtractMessage(error)

FirstFailed == error # NoError

Embedded == ParseEmbedded(Raw)

\* the message embeds parseable JSON with a nested error descriptor
HasDescriptor == Embedded.ok /\ Embedded.value.hasError

\* the descriptor carries a non-empty message string
HasNestedMessage ==
  HasDescriptor /\ Embedded.value.message.present /\ Embedded.value.message.text # << >>

\* the descriptor matches the classification table of the specification
TableMatch ==
  /\ HasDescriptor
  /\ \/ Embedded.value.code \in {403, 404, 400}
     \/ Embedded.value.status \in {"PERMISSION_DENIED", "NOT_FOUND"}
     \/ Includes(Embedded.value.message.text, "quota")

MatchesSomePattern(m) == \E p \in Patterns : Includes(m, p)

\* C1: one call invokes operation at most twice and openSelectKey at most
\* once; once the second invocation has failed the call has ended with a
\* failure.
C1_AtMostOneRetry ==
  /\ Count("operation") <= 2
  /\ Count("openSelectKey") <= 1
  /\ (Count("operation") = 2 /\ retryError # NoError
        => pc = "done" /\ outcome.status = "rejected")

C1_Witness ==
  pc = "done" /\ trace = << "operation", "openSelectKey", "operation" >>
  /\ retryError # NoError /\ outcome.status = "rejected"

\* C2: when the first invocation fulfils with v the gateway returns v after
\* exactly one invocation, no prompt and no classification, whatever
\* requireAuth and the availability of the collaborator.
C2_FirstSuccessReturned ==
  pc = "done" /\ ~FirstFailed
    => /\ value \in Values
       /\ outcome = Fulfilled(value)
       /\ trace = << "operation" >>
       /\ classified = 0

C2_Witness ==
  pc = "done" /\ ~FirstFailed /\ outcome = Fulfilled(<< "v2" >>)
  /\ requireAuth /\ hasSelectKey

\* C3 (as stated): after a retryable first failure and a successful prompt
\* the outcome is the second invocation's outcome unmodified: v when it
\* fulfils with v, the same failure e when it rejects with e.
C3_SecondOutcomeUnmodified ==
  pc = "done" /\ Count("operation") = 2
    => IF retryError = NoError
         THEN outcome = Fulfilled(value)
         ELSE outcome = Rejected(ExtractMessage(retryError))

\* C3 (amended): after a retryable first failure and a successful prompt,
\* the gateway returns v when the second invocation fulfils with v, and
\* fails with the fixed message "Connection failed. Please select a valid
\* API Key." when it rejects, whatever the failure; the second failure is
\* not classified.
C3_SecondFailureReplaced ==
  pc = "done" /\ Count("operation") = 2
    => /\ classified = 1
       /\ IF retryError = NoError
            THEN outcome = Fulfilled(value)
            ELSE outcome = Rejected(KeyErrorMessage)

C3_Witness ==
  pc = "done" /\ Count("operation") = 2 /\ retryError # NoError
  /\ ExtractMessage(retryError) = << "quota" >>
  /\ outcome = Rejected(KeyErrorMessage)

\* C4: when openSelectKey fails the gateway fails with the fixed message,
\* which differs from the message of the original error, and operation has
\* been invoked exactly once.
C4_PromptFailureFixedMessage ==
  pc = "done" /\ trace = << "operation", "openSelectKey" >>
    => /\ outcome = Rejected(KeyErrorMessage)
       /\ KeyErrorMessage # Raw
       /\ Count("operation") = 1

C4_Witness ==
  pc = "done" /\ trace = << "operation", "openSelectKey" >>
  /\ retryError # NoError /\ Includes(Raw, KeyErrorMessage[1])

\* C5: a first failure whose extracted message contains "quota" anywhere is
\* classified retryable, with or without an embedded error descriptor.
C5_QuotaAlwaysRetryable ==
  FirstFailed /\ Includes(Raw, "quota") => isPermissionError

\* C6: a first failure is retryable exactly when the embedded descriptor
\* matches the classification table or, no structured classification having
\* been made, the raw extracted message contains one of the ten patterns.
C6_RetryableIffTableOrRawPattern ==
  FirstFailed
    => (isPermissionError <=> (TableMatch \/ (~TableMatch /\ MatchesSomePattern(Raw))))

\* the case of C7: descriptor with code 403 or status PERMISSION_DENIED,
\* prompting enabled and collaborator available
C7_Case ==
  /\ FirstFailed /\ HasDescriptor
  /\ (Embedded.value.code = 403 \/ Embedded.value.status = "PERMISSION_DENIED")
  /\ requireAuth /\ hasSelectKey

\* C7 (as stated): in that case the failure is retryable and the call
\* consists of exactly: operation, openSelectKey, operation.
C7_PromptThenRetryAlways ==
  pc = "done" /\ C7_Case
    => isPermissionError
       /\ trace = << "operation", "openSelectKey", "operation" >>

\* C7 (amended): in that case the failure is retryable, openSelectKey is
\* invoked exactly once right after the failed first invocation, and
\* operation is invoked exactly once more after it when the flow succeeds
\* and not again when the flow fails.
C7_PromptThenRetryIfSelected ==
  C7_Case
    => /\ isPermissionError
       /\ pc \in {"select", "op2", "done"}
       /\ (pc = "select" => trace = << "operation", "openSelectKey" >>)
       /\ (pc = "op2" => trace = << "operation", "openSelectKey", "operation" >>)
       /\ (pc = "done" =>
             \/ trace = << "operation", "openSelectKey", "operation" >>
             \/ /\ trace = << "operation", "openSelectKey" >>
                /\ outcome = Rejected(KeyErrorMessage))

C7_Witness ==
  /\ pc = "done" /\ C7_Case
  /\ Embedded.value.message.text = << "no access" >>
  /\ Embedded.value.code = 403 /\ Embedded.value.status = "PERMISSION_DENIED"
  /\ trace = << "operation", "openSelectKey", "operation" >>
  /\ outcome.status = "fulfilled"

\* C8: a retryable first failure with requireAuth false, or without the
\* collaborator, ends in a failure after one invocation and no prompt.
C8_NoPromptWithoutAuthOrCollaborator ==
  FirstFailed /\ isPermissionError /\ (~requireAuth \/ ~hasSelectKey)
    => /\ pc = "done"
       /\ trace = << "operation" >>
       /\ outcome.status = "rejected"

C8_Witness ==
  FirstFailed /\ isPermissionError /\ ~requireAuth /\ hasSelectKey /\ pc = "done"

\* C9: a first failure whose message matches no pattern and embeds no
\* parseable JSON fails with exactly that message after one invocation and
\* no prompt.
C9_UnknownFailsWithOwnMessage ==
  FirstFailed /\ ~Embedded.ok /\ ~MatchesSomePattern(Raw)
    => /\ pc = "done"
       /\ outcome = Rejected(Raw)
       /\ trace = << "operation" >>

C9_Witness ==
  /\ FirstFailed /\ Raw = << "connection reset" >> /\ requireAuth /\ hasSelectKey
  /\ outcome = Rejected(<< "connection reset" >>)

\* C10: when no retry is performed the gateway fails with the non-empty
\* nested message m of the embedded descriptor, which is not the raw
\* message, and with the raw extracted message when there is none.
C10_NestedMessageReported ==
  pc = "done" /\ FirstFailed /\ trace = << "operation" >>
    => IF HasNestedMessage
         THEN outcome = Rejected(Embedded.value.message.text) /\ outcome.message # Raw
         ELSE outcome = Rejected(Raw)

C10_Witness ==
  /\ pc = "done" /\ FirstFailed /\ trace = << "operation" >>
  /\ HasNestedMessage /\ Embedded.value.code = 403
  /\ Embedded.value.status = "PERMISSION_DENIED"
  /\ outcome = Rejected(<< "no access" >>)

\* ---------------------------------------- claims on the service functions
\* positions of the content segments of response r that carry inline data
InlinePositions(r) ==
  IF r.hasParts
    THEN { i \in DOMAIN r.parts : r.parts[i].inline /\ r.parts[i].data # << >> }
    ELSE {}

FirstInline(r) == CHOOSE i \in InlinePositions(r) : \A j \in InlinePositions(r) : i <= j

\* the texts of the segments of parts, concatenated in order
RECURSIVE AllText(_)
AllText(parts) ==
  IF parts = << >> THEN << >> ELSE Head(parts).text \o AllText(Tail(parts))

VideoBackendRequests == { "generateVideos", "getVideosOperation", "fetch", "setTimeout:5000" }

MissingKeyError == VideoError(<< "API Key required for download" >>)

\* C11: in generateImage, once tier 1 has failed (by rejection or by a
\* response without inline data) the tier-2 request has been made through
\* the gateway, and generateImage's outcome is the gateway's outcome: it is
\* pending while the gateway is, and never settled by the tier-1 failure.
C11_Tier1FailureFallsToTier2 ==
  svc.fn = "generateImage" /\ svc.tier1 # NoError
    => /\ Len(svc.calls) >= 2 /\ svc.calls[2] = FlashRequest
       /\ trace # << >> /\ trace[1] = "operation"
       /\ svc.result = outcome
       /\ (svc.stage = "settled") = (pc = "done")

C11_Witness ==
  /\ svc.entry = "generateImage" /\ svc.stage = "settled"
  /\ svc.tier1 = Thrown("Error", << "No image data returned." >>, NoObject, 0)
  /\ svc.result = Fulfilled(DataUri(<< "AAAA" >>))

\* C12: in generateImage the tier-1 request is made exactly once; the prompt
\* is opened only after a tier-2 invocation failed retryably; when tier 1
\* succeeds there is no tier-2 request and no prompt.
C12_OnlyTier2Prompts ==
  svc.fn = "generateImage"
    => /\ Calls(Tier1Request) = 1 /\ svc.calls[1] = Tier1Request
       /\ (Count("openSelectKey") > 0
             => /\ svc.tier1 # NoError /\ error # NoError /\ isPermissionError
                /\ Calls(FlashRequest) >= 1)
       /\ (pc \in {"start", "op1"} => Count("openSelectKey") = 0)
       /\ (svc.stage = "settled" /\ svc.tier1 = NoError
             => svc.calls = << Tier1Request >> /\ trace = << >>)

C12_Witness ==
  /\ svc.fn = "generateImage" /\ svc.stage = "settled"
  /\ trace = << "operation", "openSelectKey", "operation" >>
  /\ svc.calls = << Tier1Request, FlashRequest, FlashRequest >>

\* C13: extraction returns the first segment with inline data; without such
\* a segment (also without any segment) it fails with the text of the text
\* segments, accumulated in order, when that is not empty and with the
\* generic failure otherwise.
C13_ExtractionPolicy ==
  svc.fn \in {"generateImage", "editImage"} /\ svc.extracted # NoExtract
    => LET r == svc.response
           x == svc.extracted
           refused == IF svc.fn = "editImage" THEN "Model unable to edit: "
                                              ELSE "Model refused: "
           generic == IF svc.fn = "editImage" THEN "No edited image returned."
                                              ELSE "No image data returned."
       IN  IF InlinePositions(r) # {}
             THEN x.ok /\ x.value = << "data:image/png;base64", "," >> \o r.parts[FirstInline(r)].data
           ELSE IF AllText(r.parts) # << >>
             THEN ~x.ok /\ x.error.message = << refused >> \o AllText(r.parts)
           ELSE ~x.ok /\ x.error.message = << generic >>

C13_Witness ==
  /\ svc.fn = "editImage"
  /\ Len(svc.response.parts) = 2
  /\ svc.extracted.error.message = << "Model unable to edit: ", "I cannot", "quota" >>

\* C14: a fulfilled image operation returns 'data:image/png;base64,'
\* followed by the inline payload p, and stripping the prefix as editImage
\* does gives p back.
C14_DataUriRoundTrip ==
  ( /\ svc.fn \in {"generateImage", "editImage"} /\ svc.stage = "settled"
    /\ svc.result.status = "fulfilled" )
    => /\ InlinePositions(svc.response) # {}
       /\ LET p == svc.response.parts[FirstInline(svc.response)].data
          IN  /\ svc.result.value = << "data:image/png;base64", "," >> \o p
              /\ StripDataUriPrefix(svc.result.value) = p

C14_Witness ==
  /\ svc.fn = "editImage" /\ svc.stage = "settled"
  /\ svc.result.status = "fulfilled"
  /\ StripDataUriPrefix(svc.result.value) = << "iVBOR" >>
  /\ Len(svc.response.parts) = 2

\* C15: generateVideo without useProMode makes no request to the video
\* backend; it runs editImage when a reference image is passed and
\* generateImage otherwise, and its outcome is that function's.
C15_PreviewModeAvoidsVideoBackend ==
  svc.entry = "generateVideo" /\ ~svc.pro
    => /\ \A i \in DOMAIN svc.calls : svc.calls[i] \notin VideoBackendRequests
       /\ svc.fn = (IF svc.ref THEN "editImage" ELSE "generateImage")
       /\ svc.handle = NoHandle
       /\ (svc.fn = "editImage" \/ svc.tier1 # NoError => svc.result = outcome)

C15_Witness ==
  /\ svc.entry = "generateVideo" /\ ~svc.pro /\ svc.ref
  /\ svc.stage = "settled" /\ svc.result.status = "fulfilled"

\* C16: when the Veo operation finds no API key at download time the call
\* fails at once: no prompt is opened and no request made after it.
C16_MissingKeyIsTerminal ==
  [][ svc.stage = "throw" /\ svc.thrown = MissingKeyError
        => /\ svc'.stage = "settled"
           /\ svc'.result.status = "rejected"
           /\ trace' = trace
           /\ svc'.calls = svc.calls ]_vars

C16_Witness ==
  /\ svc.stage = "settled" /\ svc.fn = "generateVideo"
  /\ error = MissingKeyError /\ requireAuth /\ hasSelectKey
  /\ trace = << "operation" >>
  /\ svc.result = Rejected(<< "API Key required for download" >>)

\* C17: in pro mode, when video generation fails because the API key is
\* invalid, generateVideo still gives the caller a result (an image).
C17_InvalidKeyFallsBackToImage ==
  ( /\ svc.entry = "generateVideo" /\ svc.pro /\ svc.stage = "settled"
    /\ error = Thrown("Error", << "API key not valid" >>, NoObject, 0) )
    => svc.result.status = "fulfilled"

\* ------------------------------------------------ claims on the call sites
\* C18: a component never awaits more than one service call.
C18_AtMostOneInFlight ==
  ui.inFlight + (IF ui.reading THEN 1 ELSE 0) <= 1

\* C19: the message of a failed service call is never on screen.
C19_FailureTextNeverShown ==
  ui.shown \notin ServiceFailures \ { << >> }

\* C20: a step in which an awaited service call settles leaves the loading
\* flag false, and the flag is false whenever nothing is awaited.
C20_SettledMeansNotLoading ==
  [][ /\ ui'.inFlight < ui.inFlight => ~ui'.loading /\ ui'.last # "none"
      /\ ui'.inFlight = 0 /\ ~ui'.reading => ~ui'.loading ]_vars

C20_Witness ==
  /\ ui.site = "VideoGen" /\ ui.last = "rejected"
  /\ ui.inFlight = 0 /\ ~ui.loading /\ ui.shown = << >>

\* ------------------------------------------------- claims on the Veo loop
\* position in svc.calls of the latest job submission, 0 without one
LastSubmission ==
  IF \E i \in DOMAIN svc.calls : svc.calls[i] = "generateVideos"
    THEN CHOOSE i \in DOMAIN svc.calls :
           /\ svc.calls[i] = "generateVideos"
           /\ \A j \in DOMAIN svc.calls : svc.calls[j] = "generateVideos" => j <= i
    ELSE 0

\* the requests of the latest attempt of the Veo operation
Attempt ==
  IF LastSubmission = 0 THEN << >>
  ELSE SubSeq(svc.calls, LastSubmission, Len(svc.calls))

InAttempt(r) == Cardinality({ i \in DOMAIN Attempt : Attempt[i] = r })

\* C21: in pro mode every invocation of the operation that has a prompt or
\* an image submits one job; in the latest attempt each status poll comes
\* right after a 5-second delay and each delay that elapsed is followed by a
\* poll; there is no delay or poll while the handle is done, none at all
\* when the submitted handle was done; the fetch is the last request of the
\* attempt and is made only with a done handle that has a URI; and a step
\* taken with a done handle makes no request but that fetch.
C21_PollLoopOrder ==
  [][ svc'.fn = "generateVideo"
        => /\ Calls("generateVideos")' =
                (IF svc'.prompt \/ svc'.ref THEN Count("operation")' ELSE 0)
           /\ \A i \in DOMAIN Attempt' :
                /\ Attempt'[i] = "getVideosOperation"
                     => i > 1 /\ Attempt'[i - 1] = "setTimeout:5000"
                /\ Attempt'[i] = "setTimeout:5000" /\ i < Len(Attempt')
                     => Attempt'[i + 1] = "getVideosOperation"
                /\ Attempt'[i] = "fetch" => i = Len(Attempt')
           /\ svc'.stage \in {"delay", "poll"} => ~svc'.handle.done
           /\ svc'.stage = "delay" => Attempt'[Len(Attempt')] = "setTimeout:5000"
           /\ svc'.handle.done /\ svc'.polls = 0 => InAttempt("getVideosOperation")' = 0
           /\ InAttempt("fetch")' > 0 => svc'.handle.done /\ svc'.handle.uri
           /\ svc.fn = "generateVideo" /\ svc.handle.done /\ svc'.calls # svc.calls
                /\ svc.stage # "select"
                => svc'.calls = Append(svc.calls, "fetch") ]_vars

C21_Witness ==
  /\ svc.fn = "generateVideo" /\ svc.stage = "settled"
  /\ svc.result.status = "fulfilled" /\ svc.result.value = BlobUrl
  /\ svc.calls = << "generateVideos", "setTimeout:5000", "getVideosOperation",
                    "setTimeout:5000", "getVideosOperation", "fetch" >>

PromptOrImageRequired == VideoError(<< "Prompt or Image required for video generation" >>)

\* C22: against a job that reports done after finitely many handles, a
\* pro-mode generateVideo settles or, after a failure, waits for the
\* credential prompt, and without any failure it settles with the video;
\* against a job that never reports done the call leaves the poll loop only
\* by the failure of a backend request: the operation throws nothing but
\* its input check, each delay is followed by a poll and each answered poll
\* by another delay.
C22_PollsUntilDoneOrFailure ==
  /\ [](svc.fn = "generateVideo" /\ svc.job >= 0
          => <>(svc.stage \in {"settled", "select"}))
  /\ [](svc.fn = "generateVideo" /\ svc.job >= 0 /\ svc.stage = "settled"
        /\ error = NoError
          => svc.result.status = "fulfilled" /\ svc.result.value = BlobUrl)
  /\ [](svc.fn = "generateVideo" /\ svc.job = NeverDone
          => /\ svc.thrown \in {NoError, PromptOrImageRequired}
             /\ svc.result.status # "fulfilled"
             /\ svc.stage = "settled"
                  => error \in BackendErrors \cup {PromptOrImageRequired})
  /\ [](svc.fn = "generateVideo" /\ svc.job = NeverDone /\ svc.stage = "delay"
          => <>(svc.stage = "poll"))
  /\ [](svc.fn = "generateVideo" /\ svc.job = NeverDone /\ svc.stage = "poll"
          => <>(svc.stage \in {"delay", "settled", "select"}))

C22_Witness ==
  /\ svc.fn = "generateVideo" /\ svc.job = NeverDone
  /\ svc.stage = "poll" /\ svc.polls = MaxPolls + 1
  /\ error = NoError /\ svc.result.status = "pending"

\* ------------------------------------------------------- claims on App
\* C23: while user is null App renders the spinner of its first render, Home
\* or Auth, never a gateway-backed view; user becomes non-null only by the
\* stored session found on load or when a login or registration call
\* fulfils; a logout removes the session, sets user to null and the view to
\* HOME.
C23_ViewsNeedUser ==
  [][ /\ ui'.user = NoUser
           => Rendered(ui') \in {"Spinner", "Home", "Auth"}
              /\ (~ui'.isLoading => Rendered(ui') \in {"Home", "Auth"})
      /\ Rendered(ui') \in {"ImageGen", "ImageEdit", "ChatInterface", "Gallery"}
           => ui'.user \in Users
      /\ ui.user = NoUser /\ ui'.user # NoUser
           => \/ ui.isLoading /\ ui.session # NoUser /\ ui'.user = ui.session
              \/ ui'.pending < ui.pending
      /\ ui.user # NoUser /\ ui'.user = NoUser
           => ui'.session = NoUser /\ ui'.currentView = "HOME" ]_vars

C23_Witness ==
  /\ ui.site = "App" /\ ui.user = NoUser /\ ui.session = NoUser
  /\ ~ui.isSidebarOpen /\ ui.currentView = "HOME" /\ ui.pending = 1

\* ------------------------------------------------- claims on ImageEdit
\* C24: an undo with a preview pending leaves history and historyIndex as
\* they are and sets resultImage to null; without a preview it decrements
\* historyIndex when that is above 0 and changes nothing otherwise.
C24_UndoDiscardsPreviewFirst ==
  [][ Undo
        => /\ ui'.history = ui.history
           /\ ui'.resultImage = NoImage
           /\ ui'.historyIndex =
                (IF ui.resultImage = NoImage /\ ui.historyIndex > 0
                   THEN ui.historyIndex - 1 ELSE ui.historyIndex) ]_vars

C24_Witness ==
  /\ ui.site = "ImageEdit" /\ ui.last = "undo"
  /\ ui.history = << << "A" >>, << "A", "edit" >> >> /\ ui.historyIndex = 1
  /\ ui.resultImage = NoImage /\ ~ui.loading /\ ui.editing = NoImage

\* C25: historyIndex is between -1 and history.length - 1, and is -1
\* exactly when history is empty.
C25_HistoryIndexInRange ==
  ui.site = "ImageEdit"
    => /\ -1 <= ui.historyIndex /\ ui.historyIndex <= Len(ui.history) - 1
       /\ (ui.historyIndex = -1) = (ui.history = << >>)
       /\ (currentImage(ui) # NoImage) = (ui.history # << >>)

C25_Witness ==
  /\ ui.site = "ImageEdit" /\ ui.last = "redo"
  /\ Len(ui.history) = MaxHistory /\ ui.historyIndex = MaxHistory - 1
  /\ ui.editing # NoImage

\* C26: a pending preview is an edit of the current image.
C26_PreviewIsEditOfCurrent ==
  ui.site = "ImageEdit" /\ ui.resultImage # NoImage
    => ui.resultImage = Append(currentImage(ui), "edit")

\* C30: for the result on screen saveToGallery is called at most once.
C30_SavedAtMostOnce ==
  ui.site = "ImageEdit" => ui.saveCalls <= 1

\* C27: when the first invocation of a gateway-wrapped image operation fails
\* in the extraction of its response, the gateway opens no key prompt and
\* invokes nothing again: it rejects with the message of that failure.
C27_ExtractionFailureIsFinal ==
  [][ ( /\ svc.fn \in {"generateImage", "editImage"} /\ svc.stage = "request"
        /\ pc = "op1"
        /\ svc'.extracted # NoExtract /\ ~svc'.extracted.ok )
        => /\ pc' = "done" /\ trace' = trace
           /\ outcome' = Rejected(svc'.extracted.error.message) ]_vars

\* C28: in pro-mode generateVideo, when the key prompt fulfils the operation
\* is invoked again from its first line: a new job is submitted, with no
\* handle and no poll answered yet; one call submits at most two jobs and
\* opens at most one prompt.
C28_RetryResubmitsJob ==
  /\ [](svc.entry = "generateVideo" /\ svc.pro
          => /\ Calls("generateVideos") <= 2
             /\ Count("openSelectKey") <= 1
             /\ (Calls("generateVideos") = 2 => Count("openSelectKey") = 1))
  /\ [][ (svc.entry = "generateVideo" /\ svc.pro /\ pc = "select" /\ pc' = "op2")
           => /\ svc'.calls = Append(svc.calls, "generateVideos")
              /\ svc'.stage = "submit"
              /\ svc'.handle = NoHandle /\ svc'.polls = 0 ]_vars

C28_Witness ==
  /\ svc.entry = "generateVideo" /\ svc.pro /\ svc.stage = "settled"
  /\ svc.result = Fulfilled(BlobUrl)
  /\ trace = << "operation", "openSelectKey", "operation" >>
  /\ Calls("generateVideos") = 2 /\ Calls("fetch") = 2
  /\ Calls("getVideosOperation") >= 2

\* C29: after a confirmed Clear History neither the history of the
\* component nor the stored history holds an entry made before the clear.
C29_ClearedEntriesGone ==
  ui.site = "ImageGen"
    => /\ \A i \in DOMAIN ui.history : ui.history[i].timestamp > ui.clearedAt
       /\ \A i \in DOMAIN ui.stored.items : ui.stored.items[i].timestamp > ui.clearedAt

=============================================================================
